---- MODULE Spec2Model ----
(***************************************************************************)
(* Sleep-quality prediction app (src/app.py): artifact loading, input      *)
(* preprocessing, risk classification and the SHAP waterfall walk.         *)
(*                                                                         *)
(* Numbers.  Raw form values are integers (the form stores float(int)).    *)
(* Encoded / scaled values are fixed-point thousandths.  Probabilities     *)
(* are p / ProbScale.  SHAP contributions and baselines are integers in    *)
(* the same unit as the probability.                                       *)
(***************************************************************************)
EXTENDS Integers, Sequences, FiniteSets, TLC

\* ---------------------------------------------------------------- bounds
MaxFeatures == 3        \* longest selected_features for the function-level specs
MaxAppFeatures == 2     \* longest selected_features an artifact store holds in Spec
MaxInputs == 2          \* values of each field's domain that are enumerated
MaxContrib == 1         \* |SHAP contribution| <= MaxContrib
ProbScale == 20         \* probabilities are 0/ProbScale .. ProbScale/ProbScale

VARIABLES pc, loaded, features_info, input_data, pre, pred, attr, plot, ui, calls

vars == <<pc, loaded, features_info, input_data, pre, pred, attr, plot, ui, calls>>

\* ------------------------------------------------------------- sequences
Range(s) == {s[i] : i \in 1..Len(s)}

Reverse(s) == [i \in 1..Len(s) |-> s[Len(s) + 1 - i]]

RECURSIVE SumSeq(_)
SumSeq(s) == IF s = <<>> THEN 0 ELSE Head(s) + SumSeq(Tail(s))

Abs(x) == IF x < 0 THEN -x ELSE x

\* All duplicate-free sequences over S of length 1..n.
SeqsNoDup(S, n) ==
    UNION {{s \in [1..k -> S] : \A i, j \in 1..k : i # j => s[i] # s[j]} : k \in 1..n}

\* ------------------------------------------------------- feature catalog
\* Identifiers of the model: a categorical form field, a continuous form
\* field, and an identifier that is in no form category, not in
\* FEATURE_LABELS and not in feature_name_map.
FeatureIds == {"education", "cesd", "bmi"}

\* FEATURE_LABELS restricted to the modelled form fields.  `lo`/`hi` are the
\* smallest and largest option key, resp. 'min' and 'max'.
FEATURE_LABELS ==
    [education |-> [label |-> "Education Level", options |-> TRUE, lo |-> 1, hi |-> 3],
     cesd      |-> [label |-> "CESD Depression Score", options |-> FALSE, lo |-> 0, hi |-> 30]]

\* The form's categories, restricted to the modelled identifiers.
categories == << <<"education">>, <<"cesd">> >>

feature_name_map == [education |-> "Education", cesd |-> "Depression Score"]

\* The values of field f that are enumerated (the first MaxInputs of its domain).
FieldValues(f) ==
    IF f \in DOMAIN FEATURE_LABELS
    THEN {v \in FEATURE_LABELS[f].lo .. FEATURE_LABELS[f].hi : v < FEATURE_LABELS[f].lo + MaxInputs}
    ELSE 0 .. (MaxInputs - 1)

\* All raw records: any subset of the identifiers, each with a value.
RawRecords ==
    UNION {{d \in [K -> UNION {FieldValues(f) : f \in FeatureIds}] :
                \A f \in K : d[f] \in FieldValues(f)} : K \in SUBSET FeatureIds}

\* ------------------------------------------------------------- artifacts
\* The sub-sequence of sel whose identifiers are tagged k by the assignment a.
SubSeqOf(sel, a, k) == SelectSeq(sel, LAMBDA f : a[f] = k)

\* Feature sets an artifact store may hold: selected_features is any
\* duplicate-free sequence of at most n identifiers; every identifier is
\* declared categorical, continuous or neither (load_models defaults both
\* sub-sequences to []); a sub-sequence is in selected_features order or in
\* the reverse order.
FeatureInfos(n) ==
    {[selected_features    |-> sel,
      selected_categorical |-> IF rev THEN Reverse(SubSeqOf(sel, a, "cat")) ELSE SubSeqOf(sel, a, "cat"),
      selected_continuous  |-> IF rev THEN Reverse(SubSeqOf(sel, a, "cont")) ELSE SubSeqOf(sel, a, "cont")] :
        sel \in SeqsNoDup(FeatureIds, n),
        a \in [FeatureIds -> {"cat", "cont", "none"}],
        rev \in BOOLEAN}

NoFeatureInfo ==
    [selected_features |-> <<>>, selected_categorical |-> <<>>, selected_continuous |-> <<>>]

\* ---------------------------------------------- fitted encoder and scaler
\* OrdinalEncoder.transform: a category's code is its rank among the fitted
\* categories of its column.
OrdinalEncoderTransform(f, v) == 1000 * Cardinality({w \in FieldValues(f) : w < v})

\* StandardScaler.transform: (v - mean_) / scale_, with mean_ the smallest
\* enumerated value of the column plus one and scale_ = 3.
ScalerTransform(f, v) ==
    LET mean == (CHOOSE m \in FieldValues(f) : \A w \in FieldValues(f) : m <= w) + 1
    IN  (1000 * (v - mean)) \div 3

\* ---------------------------------------------------------- data frames
\* A one-row DataFrame is the sequence of its (column, value) cells.
EmptyFrame == <<>>

Columns(frame) == [i \in 1..Len(frame) |-> frame[i].col]

\* A variant that tolerates absent labels (as DataFrame.reindex would).
HasColumnsLenient(frame, cols) == TRUE

\* frame[cols]: for each requested label, every column carrying it, in
\* request order.  Callers test HasColumns first (KeyError otherwise).
HasColumns(frame, cols) == Range(cols) \subseteq Range(Columns(frame))

RECURSIVE SelectColumns(_, _)
SelectColumns(frame, cols) ==
    IF cols = <<>> THEN <<>>
    ELSE SelectSeq(frame, LAMBDA c : c.col = Head(cols)) \o SelectColumns(frame, Tail(cols))

\* ------------------------------------------------------ per-request state
NoPre ==
    [missing_features |-> <<>>, message |-> <<>>, df |-> <<>>,
     cat_encoded |-> EmptyFrame, cont_scaled |-> EmptyFrame, X |-> EmptyFrame,
     raised |-> "none"]

NoPred == [called |-> FALSE, probability |-> 0, risk_class |-> "none"]

NoAttr ==
    [status |-> "none", shap_values |-> <<>>, ndim |-> 0, base_value |-> 0,
     contrib_class |-> "none", base_class |-> "none"]

NoPlot ==
    [status |-> "none", sorted_idx |-> <<>>, positions |-> <<>>, values |-> <<>>,
     colors |-> <<>>, labels |-> <<>>, cumsum |-> 0]

NoCalls ==
    [preprocess_input |-> 0, encoder |-> 0, scaler |-> 0, predict_proba |-> 0,
     shap_values |-> 0, generate_shap_plot |-> 0]

Called(name) == [calls EXCEPT ![name] = @ + 1]

\* ------------------------------------------------------ preprocess_input
\* ', '.join(ids): the identifiers with a separator between neighbours.
RECURSIVE Join(_)
Join(ids) ==
    IF Len(ids) <= 1 THEN ids ELSE <<Head(ids), ", ">> \o Join(Tail(ids))

\* A variant that reports only the first absent identifier.
MissingFeaturesFirstOnly(selected_features, data) ==
    LET missing == SelectSeq(selected_features, LAMBDA f : f \notin DOMAIN data)
    IN  IF missing = <<>> THEN <<>> ELSE <<Head(missing)>>

\* A variant that also rejects a record holding keys outside selected_features.
MissingFeaturesStrict(selected_features, data) ==
    IF DOMAIN data \subseteq Range(selected_features)
    THEN SelectSeq(selected_features, LAMBDA f : f \notin DOMAIN data)
    ELSE selected_features

\* [f for f in selected_features if f not in data]
MissingFeatures(selected_features, data) ==
    SelectSeq(selected_features, LAMBDA f : f \notin DOMAIN data)

\* {k: v for k, v in data.items() if k in selected_features}
ImportantData(selected_features, data) ==
    [k \in (DOMAIN data) \cap Range(selected_features) |-> data[k]]

\* pd.DataFrame(ordinal_encoder.transform(df[cols]), columns=cols)
CatEncoded(df, cols) ==
    [i \in 1..Len(cols) |-> [col |-> cols[i], val |-> OrdinalEncoderTransform(cols[i], df[cols[i]])]]

\* pd.DataFrame(scaler_cont.transform(df[cols]), columns=cols)
ContScaled(df, cols) ==
    [i \in 1..Len(cols) |-> [col |-> cols[i], val |-> ScalerTransform(cols[i], df[cols[i]])]]

\* The merge of lines 426-431; a one-row frame is .empty iff it has no column.
Merged(cat_encoded, cont_scaled) ==
    IF cat_encoded # EmptyFrame /\ cont_scaled # EmptyFrame THEN cat_encoded \o cont_scaled
    ELSE IF cat_encoded # EmptyFrame THEN cat_encoded
    ELSE cont_scaled

\* A variant of the except clause that reports the error without re-raising.
PreRaiseSwallowed(kind, msg, missing) ==
    /\ pre' = [pre EXCEPT !.raised = kind, !.message = msg, !.missing_features = missing]
    /\ ui' = Append(ui, "error:preprocessing")
    /\ pc' = "preprocessed"

\* The except clause of preprocess_input: st.error, then re-raise.
PreRaise(kind, msg, missing) ==
    /\ pre' = [pre EXCEPT !.raised = kind, !.message = msg, !.missing_features = missing]
    /\ ui' = Append(ui, "error:preprocessing")
    /\ pc' = "raised"

\* Lines 396-405: the missing-feature check and the projection.
CheckMissing ==
    /\ pc = "preprocess"
    /\ LET missing == MissingFeatures(features_info.selected_features, input_data)
       IN  IF missing # <<>>
           THEN /\ PreRaise("ValueError", <<"Missing required features: ">> \o Join(missing), missing)
           ELSE /\ pre' = [pre EXCEPT !.df = ImportantData(features_info.selected_features, input_data)]
                /\ pc' = "encode"
                /\ ui' = ui
    /\ calls' = Called("preprocess_input")
    /\ UNCHANGED <<loaded, features_info, input_data, pred, attr, plot>>

\* Lines 407-414: the categorical sub-frame.
EncodeCategorical ==
    /\ pc = "encode"
    /\ LET cols == features_info.selected_categorical
       IN  IF cols # <<>> /\ loaded.ordinal_encoder
           THEN IF Range(cols) \subseteq DOMAIN pre.df
                THEN /\ pre' = [pre EXCEPT !.cat_encoded = CatEncoded(pre.df, cols)]
                     /\ calls' = Called("encoder")
                     /\ pc' = "scale"
                     /\ ui' = ui
                ELSE /\ PreRaise("KeyError", <<"not in index">>, <<>>)
                     /\ calls' = calls
           ELSE /\ pre' = [pre EXCEPT !.cat_encoded = EmptyFrame]
                /\ calls' = calls
                /\ pc' = "scale"
                /\ ui' = ui
    /\ UNCHANGED <<loaded, features_info, input_data, pred, attr, plot>>

\* Lines 416-423: the continuous sub-frame.
ScaleContinuous ==
    /\ pc = "scale"
    /\ LET cols == features_info.selected_continuous
       IN  IF cols # <<>> /\ loaded.scaler_cont
           THEN IF Range(cols) \subseteq DOMAIN pre.df
                THEN /\ pre' = [pre EXCEPT !.cont_scaled = ContScaled(pre.df, cols)]
                     /\ calls' = Called("scaler")
                     /\ pc' = "merge"
                     /\ ui' = ui
                ELSE /\ PreRaise("KeyError", <<"not in index">>, <<>>)
                     /\ calls' = calls
           ELSE /\ pre' = [pre EXCEPT !.cont_scaled = EmptyFrame]
                /\ calls' = calls
                /\ pc' = "merge"
                /\ ui' = ui
    /\ UNCHANGED <<loaded, features_info, input_data, pred, attr, plot>>

\* Lines 425-435: concatenation, reindex to selected_features, return.
MergeReindex ==
    /\ pc = "merge"
    /\ LET X_processed == Merged(pre.cat_encoded, pre.cont_scaled)
       IN  IF HasColumns(X_processed, features_info.selected_features)
           THEN /\ pre' = [pre EXCEPT !.X = SelectColumns(X_processed, features_info.selected_features)]
                /\ pc' = "preprocessed"
                /\ ui' = ui
           ELSE /\ PreRaise("KeyError", <<"not in index">>, <<>>)
    /\ UNCHANGED <<loaded, features_info, input_data, pred, attr, plot, calls>>

\* ---------------------------------------- preprocess_input as a function
\* preprocess_input(data, features_info, ordinal_encoder, scaler_cont) as one
\* evaluation: what it raises, or the frame it returns (lines 396-435).
PreprocessInput(data, fi, ordinal_encoder, scaler_cont) ==
    IF MissingFeatures(fi.selected_features, data) # <<>>
    THEN [raised |-> "ValueError", X |-> EmptyFrame]
    ELSE LET df == ImportantData(fi.selected_features, data)
             cat_ok  == fi.selected_categorical # <<>> /\ ordinal_encoder
             cont_ok == fi.selected_continuous # <<>> /\ scaler_cont
         IN  IF \/ cat_ok  /\ ~(Range(fi.selected_categorical) \subseteq DOMAIN df)
                \/ cont_ok /\ ~(Range(fi.selected_continuous) \subseteq DOMAIN df)
             THEN [raised |-> "KeyError", X |-> EmptyFrame]
             ELSE LET cat_encoded == IF cat_ok THEN CatEncoded(df, fi.selected_categorical)
                                     ELSE EmptyFrame
                      cont_scaled == IF cont_ok THEN ContScaled(df, fi.selected_continuous)
                                     ELSE EmptyFrame
                      X_processed == Merged(cat_encoded, cont_scaled)
                  IN  IF HasColumns(X_processed, fi.selected_features)
                      THEN [raised |-> "none", X |-> SelectColumns(X_processed, fi.selected_features)]
                      ELSE [raised |-> "KeyError", X |-> EmptyFrame]

\* Every artifact bundle load_models can return with a model, every feature
\* set and every raw record.
Bundles ==
    [model : {TRUE}, ordinal_encoder : BOOLEAN, scaler_cont : BOOLEAN,
     explainer : {TRUE}, absent : {{}}, explainer_failed : {FALSE}]

InitEncode ==
    /\ pc = "preprocess"
    /\ loaded \in Bundles
    /\ features_info \in FeatureInfos(MaxFeatures)
    /\ input_data \in RawRecords
    /\ pre = NoPre
    /\ pred = NoPred
    /\ attr = NoAttr
    /\ plot = NoPlot
    /\ ui = <<>>
    /\ calls = NoCalls

NextEncode == CheckMissing \/ EncodeCategorical \/ ScaleContinuous \/ MergeReindex

SpecEncode == InitEncode /\ [][NextEncode]_vars

\* ------------------------------------------------------------ load_models
\* What the model directory holds at start-up.  `features` is where the
\* feature set comes from (selected_features.pkl, model_features_info.json,
\* or neither); name_in_json: the json carries 'best_model_name';
\* model_file: a readable best_model_*.pkl exists; tree_model: the
\* classifier is of a type shap.TreeExplainer accepts.
Stores ==
    [dir : BOOLEAN, features : {"pkl", "json", "absent"},
     fi : FeatureInfos(MaxAppFeatures), name_in_json : BOOLEAN,
     model_file : BOOLEAN, encoder : BOOLEAN, scaler : BOOLEAN, tree_model : BOOLEAN]

\* The artifacts of the store that are absent.  The model name is supplied
\* by the json or, failing that, by the name of a best_model_*.pkl file.
AbsentArtifacts(st) ==
    {a \in {"feature_set", "model_name", "classifier", "encoder", "scaler"} :
        \/ a = "feature_set" /\ (~st.dir \/ st.features = "absent")
        \/ a = "model_name"  /\ (~st.dir \/ ~(st.model_file \/ (st.features = "json" /\ st.name_in_json)))
        \/ a = "classifier"  /\ (~st.dir \/ ~st.model_file)
        \/ a = "encoder"     /\ (~st.dir \/ ~st.encoder)
        \/ a = "scaler"      /\ (~st.dir \/ ~st.scaler)}

\* TRUE iff load_models reaches its `return model, ...` (line 386); every
\* other path returns five None.
LoadSucceeds(st) ==
    /\ st.dir                                   \* line 343
    /\ st.features # "absent"                   \* open() raises, line 358
    /\ st.model_file                            \* lines 363-372: no name and no file, or load raises
    /\ st.tree_model                            \* line 384 raises

NoBundle ==
    [model |-> FALSE, ordinal_encoder |-> FALSE, scaler_cont |-> FALSE,
     explainer |-> FALSE, absent |-> {}, explainer_failed |-> FALSE]

LoadModels ==
    /\ pc = "start"
    /\ \E st \in Stores :
         /\ IF LoadSucceeds(st)
            THEN /\ loaded' = [model |-> TRUE, ordinal_encoder |-> st.encoder,
                               scaler_cont |-> st.scaler, explainer |-> TRUE,
                               absent |-> AbsentArtifacts(st), explainer_failed |-> FALSE]
                 /\ features_info' = st.fi
                 /\ ui' = ui
            ELSE /\ loaded' = [NoBundle EXCEPT
                                 !.absent = AbsentArtifacts(st),
                                 !.explainer_failed =
                                     st.dir /\ st.features # "absent" /\ st.model_file /\ ~st.tree_model]
                 /\ features_info' = NoFeatureInfo
                 /\ ui' = Append(ui, "error:model_loading")
    /\ pc' = "main"
    /\ UNCHANGED <<input_data, pre, pred, attr, plot, calls>>

\* ------------------------------------------------------------------- main
\* Lines 554-556: st.stop() when load_models returned no model.
StopWithoutModel ==
    /\ pc = "main"
    /\ ~loaded.model
    /\ ui' = Append(ui, "error:model_loading_failed")
    /\ pc' = "stopped"
    /\ UNCHANGED <<loaded, features_info, input_data, pre, pred, attr, plot, calls>>

\* Lines 558-655: the page and the form are rendered.
RenderForm ==
    /\ pc = "main"
    /\ loaded.model
    /\ pc' = "form"
    /\ UNCHANGED <<loaded, features_info, input_data, pre, pred, attr, plot, ui, calls>>

\* A variant that shows a field for every selected feature.
FormFieldsAll(cats, selected_features) == Range(selected_features)

\* Lines 600-612: the fields the form shows.
RECURSIVE FormFields(_, _)
FormFields(cats, selected_features) ==
    IF cats = <<>> THEN {}
    ELSE {f \in Range(Head(cats)) : f \in Range(selected_features) /\ f \in DOMAIN FEATURE_LABELS}
         \cup FormFields(Tail(cats), selected_features)

\* Lines 597-658: the user fills the form and submits; the script reruns
\* with input_data built from the widgets.
Submit ==
    /\ pc = "form"
    /\ LET fields == FormFields(categories, features_info.selected_features)
       IN  \E d \in [fields -> UNION {FieldValues(f) : f \in FeatureIds}] :
             /\ \A f \in fields : d[f] \in FieldValues(f)
             /\ input_data' = d
    /\ pre' = NoPre
    /\ pred' = NoPred
    /\ attr' = NoAttr
    /\ plot' = NoPlot
    /\ ui' = <<>>
    /\ calls' = NoCalls
    /\ pc' = "preprocess"
    /\ UNCHANGED <<loaded, features_info>>

\* A finished request leaves its page; the next script run renders the form
\* afresh (load_models is cached, nothing of the request is kept).
Rerun ==
    /\ pc = "done"
    /\ input_data' = <<>>
    /\ pre' = NoPre
    /\ pred' = NoPred
    /\ attr' = NoAttr
    /\ plot' = NoPlot
    /\ ui' = <<>>
    /\ calls' = NoCalls
    /\ pc' = "form"
    /\ UNCHANGED <<loaded, features_info>>

\* Lines 761-764: main's handler for anything raised in the request.
HandleFailure ==
    /\ pc = "raised"
    /\ ui' = Append(ui, "error:prediction_failed")
    /\ pc' = "done"
    /\ UNCHANGED <<loaded, features_info, input_data, pre, pred, attr, plot, calls>>

\* ------------------------------------------------- prediction, risk band
\* probability * 100, in units of 1/ProbScale.
RiskScore(probability) == probability * 100

\* A variant whose thresholds are inclusive on the low side.
RiskClassInclusive(risk_score) ==
    IF risk_score <= 25 * ProbScale THEN "Low Risk"
    ELSE IF risk_score <= 35 * ProbScale THEN "Medium Risk"
    ELSE "High Risk"

\* Lines 669-704.
RiskClass(risk_score) ==
    IF risk_score < 25 * ProbScale THEN "Low Risk"
    ELSE IF risk_score < 35 * ProbScale THEN "Medium Risk"
    ELSE "High Risk"

\* Lines 665-731: model.predict_proba(X)[0, 1], the band, the result panel.
Predict ==
    /\ pc = "preprocessed"
    /\ \E p \in 0..ProbScale :
         LET proba == << <<ProbScale - p, p>> >>       \* one row, two classes
             probability == proba[1][2]                \* [0, 1]
         IN  pred' = [called |-> TRUE, probability |-> probability,
                      risk_class |-> RiskClass(RiskScore(probability))]
    /\ calls' = Called("predict_proba")
    /\ ui' = ui \o <<"metric", "risk_box", "recommendations">>
    /\ pc' = "explain"
    /\ UNCHANGED <<loaded, features_info, input_data, pre, attr, plot>>

\* ------------------------------------------------------------ attribution
\* explainer.shap_values(X) answers in one of three shapes: a list with one
\* (samples x features) array per class, one (samples x features) array of
\* a single-output model, or one (samples x features x classes) array.
\* explainer.expected_value is a scalar or an array with one entry per output.
\* For a two-class model the class-0 contributions are the negated class-1
\* contributions and the class-0 baseline is 1 - the class-1 baseline.
\* `cls` records which output a value belongs to.
Contribs(n) == [1..n -> (-MaxContrib)..MaxContrib]

BaseValues == 0..MaxContrib

Array2d(cls, row) == [is_list |-> FALSE, ndim |-> 2, cls |-> cls, data |-> <<row>>]

ExplainerOutputs(n) ==
    UNION {
      {[shap_values    |-> [is_list |-> TRUE, ndim |-> 0, cls |-> "all",
                            data |-> <<Array2d("0", [i \in 1..n |-> -phi[i]]), Array2d("1", phi)>>],
        expected_value |-> [is_array |-> TRUE,
                            data |-> <<[cls |-> "0", v |-> ProbScale - b], [cls |-> "1", v |-> b]>>]],
       [shap_values    |-> [is_list |-> FALSE, ndim |-> 3, cls |-> "all",
                            data |-> << [i \in 1..n |-> <<-phi[i], phi[i]>>] >>],
        expected_value |-> [is_array |-> TRUE,
                            data |-> <<[cls |-> "0", v |-> ProbScale - b], [cls |-> "1", v |-> b]>>]],
       [shap_values    |-> Array2d("single", phi),
        expected_value |-> [is_array |-> FALSE, data |-> <<[cls |-> "single", v |-> b]>>]],
       [shap_values    |-> Array2d("single", phi),
        expected_value |-> [is_array |-> TRUE, data |-> <<[cls |-> "single", v |-> b]>>]]} :
      phi \in Contribs(n), b \in BaseValues}

\* Lines 738-739: if isinstance(shap_values, list): shap_values = shap_values[1]
SelectShap(shap_values) == IF shap_values.is_list THEN shap_values.data[2] ELSE shap_values

\* Lines 741-743.
SelectBase(expected_value) ==
    IF expected_value.is_array
    THEN IF Len(expected_value.data) > 1 THEN expected_value.data[2] ELSE expected_value.data[1]
    ELSE expected_value.data[1]

\* ----------------------------------------------------- generate_shap_plot
\* np.argsort(keys) with the default (unstable) kind: any permutation of the
\* indices that puts the keys in non-decreasing order.
ArgsortOutcomes(keys) ==
    {s \in SeqsNoDup(1..Len(keys), Len(keys)) :
        /\ Len(s) = Len(keys)
        /\ \A i, j \in 1..Len(s) : i < j => keys[s[i]] <= keys[s[j]]}

\* A variant without the [::-1] reversal (ascending magnitude).
SortedIdxAscending(shap_values) ==
    ArgsortOutcomes([i \in 1..Len(shap_values) |-> Abs(shap_values[i])])

\* Line 488: np.argsort(np.abs(shap_values))[::-1]
SortedIdxOutcomes(shap_values) ==
    {Reverse(s) : s \in ArgsortOutcomes([i \in 1..Len(shap_values) |-> Abs(shap_values[i])])}

\* Line 510: feature_name_map.get(name, name)
FeatName(name) == IF name \in DOMAIN feature_name_map THEN feature_name_map[name] ELSE name

\* f'{x:.2f}' of a value in thousandths: the hundredths, ties to even.
Format2f(x) ==
    LET a == Abs(x)
        q == a \div 10
        r == a % 10
        m == IF r > 5 \/ (r = 5 /\ q % 2 = 1) THEN q + 1 ELSE q
    IN  IF x < 0 THEN -m ELSE m

\* A variant that records the offset after advancing it.
WalkStepAdvanceFirst(acc, idx, shap_values, feature_values, feature_names) ==
    [positions |-> Append(acc.positions, acc.cumsum + shap_values[idx]),
     values    |-> Append(acc.values, shap_values[idx]),
     colors    |-> Append(acc.colors, IF shap_values[idx] > 0 THEN "#FF6B6B" ELSE "#4ECDC4"),
     labels    |-> Append(acc.labels, <<FeatName(feature_names[idx]), " = ", Format2f(feature_values[idx])>>),
     cumsum    |-> acc.cumsum + shap_values[idx]]

\* Lines 506-514: one iteration of the walk.
WalkStep(acc, idx, shap_values, feature_values, feature_names) ==
    [positions |-> Append(acc.positions, acc.cumsum),
     values    |-> Append(acc.values, shap_values[idx]),
     colors    |-> Append(acc.colors, IF shap_values[idx] > 0 THEN "#FF6B6B" ELSE "#4ECDC4"),
     labels    |-> Append(acc.labels, <<FeatName(feature_names[idx]), " = ", Format2f(feature_values[idx])>>),
     cumsum    |-> acc.cumsum + shap_values[idx]]

\* Lines 490-514: the loop over sorted_idx, starting from cumsum = base_value.
RECURSIVE Walk(_, _, _, _, _)
Walk(acc, order, shap_values, feature_values, feature_names) ==
    IF order = <<>> THEN acc
    ELSE Walk(WalkStep(acc, Head(order), shap_values, feature_values, feature_names),
              Tail(order), shap_values, feature_values, feature_names)

WalkStart(base_value) ==
    [positions |-> <<>>, values |-> <<>>, colors |-> <<>>, labels |-> <<>>, cumsum |-> base_value]

\* X.values[0]
RowValues(X) == [i \in 1..Len(X) |-> X[i].val]

\* generate_shap_plot(shap_values, feature_values, base_value,
\* features_info): the plots it can produce.  A two-dimensional
\* shap_values makes `shap_values[idx] > 0` (line 508) raise inside the
\* function, whose handler reports the error and returns None.
GenerateShapPlot(shap_values, ndim, feature_values, base_value, fi) ==
    IF ndim = 1
    THEN {LET w == Walk(WalkStart(base_value), sorted_idx, shap_values,
                        feature_values, fi.selected_features)
          IN  [status |-> "drawn", sorted_idx |-> sorted_idx,
               positions |-> w.positions, values |-> w.values,
               colors |-> w.colors, labels |-> w.labels, cumsum |-> w.cumsum] :
            sorted_idx \in SortedIdxOutcomes(shap_values)}
    ELSE {[NoPlot EXCEPT !.status = "failed"]}

\* Lines 733-758 with explainer.shap_values(X) returning: the class
\* selection, generate_shap_plot(shap_values[0], X.values[0], base_value,
\* features_info), st.pyplot if a figure came back, the details expander.
Explain ==
    /\ pc = "explain"
    /\ \E out \in ExplainerOutputs(Len(pre.X)) :
         LET shap_values == SelectShap(out.shap_values)
             base_value  == SelectBase(out.expected_value)
         IN  /\ attr' = [status        |-> "ok",
                         shap_values   |-> shap_values.data[1],          \* shap_values[0]
                         ndim          |-> shap_values.ndim - 1,
                         base_value    |-> base_value.v,
                         contrib_class |-> shap_values.cls,
                         base_class    |-> base_value.cls]
             /\ \E fig \in GenerateShapPlot(shap_values.data[1], shap_values.ndim - 1,
                                            RowValues(pre.X), base_value.v, features_info) :
                  /\ plot' = fig
                  /\ ui' = ui \o (IF fig.status = "drawn" THEN <<"pyplot", "caption">>
                                  ELSE <<"error:shap_plot_failed">>) \o <<"details">>
    /\ calls' = [calls EXCEPT !.shap_values = @ + 1, !.generate_shap_plot = @ + 1]
    /\ pc' = "done"
    /\ UNCHANGED <<loaded, features_info, input_data, pre, pred>>

\* Lines 733-758 with explainer.shap_values(X) raising: the warning of
\* line 752, then the details expander.
ExplainRaises ==
    /\ pc = "explain"
    /\ attr' = [attr EXCEPT !.status = "failed"]
    /\ calls' = Called("shap_values")
    /\ ui' = ui \o <<"warning:feature_impact_failed", "details">>
    /\ pc' = "done"
    /\ UNCHANGED <<loaded, features_info, input_data, pre, pred, plot>>

\* ------------------------------------------------------------ the program
Init ==
    /\ pc = "start"
    /\ loaded = NoBundle
    /\ features_info = NoFeatureInfo
    /\ input_data = <<>>
    /\ pre = NoPre
    /\ pred = NoPred
    /\ attr = NoAttr
    /\ plot = NoPlot
    /\ ui = <<>>
    /\ calls = NoCalls

Next ==
    \/ LoadModels
    \/ StopWithoutModel
    \/ RenderForm
    \/ Submit
    \/ CheckMissing
    \/ EncodeCategorical
    \/ ScaleContinuous
    \/ MergeReindex
    \/ Predict
    \/ Explain
    \/ ExplainRaises
    \/ Rerun
    \/ HandleFailure

Spec == Init /\ [][Next]_vars

\* ------------------------------------- generate_shap_plot as a function
\* One-row frames over the given columns whose values are outputs of the
\* encoder or the scaler.
CellValues(f) ==
    {OrdinalEncoderTransform(f, x) : x \in FieldValues(f)}
    \cup {ScalerTransform(f, x) : x \in FieldValues(f)}

FramesOver(cols) ==
    {[i \in 1..Len(cols) |-> [col |-> cols[i], val |-> v[i]]] :
        v \in {w \in [1..Len(cols) -> UNION {CellValues(f) : f \in FeatureIds}] :
                 \A i \in 1..Len(cols) : w[i] \in CellValues(cols[i])}}

\* The arguments main can pass: a feature set, the encoded row, a baseline
\* and either one contribution per feature or one pair per feature.
InitWaterfall ==
    /\ pc = "plot"
    /\ loaded \in {b \in Bundles : b.ordinal_encoder /\ b.scaler_cont}
    /\ features_info \in {fi \in FeatureInfos(MaxFeatures) :
                            fi.selected_categorical = <<>> /\ fi.selected_continuous = <<>>}
    /\ input_data = <<>>
    /\ \E X \in FramesOver(features_info.selected_features) : pre = [NoPre EXCEPT !.X = X]
    /\ pred = NoPred
    /\ \E phi \in Contribs(Len(features_info.selected_features)), b \in BaseValues, ndim \in {1, 2} :
         attr = [status        |-> "ok",
                 shap_values   |-> IF ndim = 1 THEN phi
                                   ELSE [i \in 1..Len(phi) |-> <<-phi[i], phi[i]>>],
                 ndim          |-> ndim,
                 base_value    |-> b,
                 contrib_class |-> IF ndim = 1 THEN "1" ELSE "all",
                 base_class    |-> "1"]
    /\ plot = NoPlot
    /\ ui = <<>>
    /\ calls = NoCalls

\* A call of generate_shap_plot (lines 479-542).
PlotCall ==
    /\ pc = "plot"
    /\ \E fig \in GenerateShapPlot(attr.shap_values, attr.ndim, RowValues(pre.X),
                                   attr.base_value, features_info) :
         /\ plot' = fig
         /\ ui' = IF fig.status = "drawn" THEN ui ELSE Append(ui, "error:shap_plot_failed")
    /\ calls' = Called("generate_shap_plot")
    /\ pc' = "plotted"
    /\ UNCHANGED <<loaded, features_info, input_data, pre, pred, attr>>

NextWaterfall == PlotCall

SpecWaterfall == InitWaterfall /\ [][NextWaterfall]_vars

\* ================================================================ claims
\* Identifiers of selected_features that the raw record lacks.
AbsentIds == {f \in Range(features_info.selected_features) : f \notin DOMAIN input_data}

\* preprocess_input has been called and has returned or raised.
PreprocessFinished == calls.preprocess_input > 0 /\ pc \notin {"encode", "scale", "merge"}

\* The identifiers a 'Missing required features: a, b' message lists.
ListedIds(message) == [i \in 1..(Len(message) \div 2) |-> message[2 * i]]

\* Everything the page shows as a warning or an error.
Diagnostics ==
    {"error:model_loading", "error:model_loading_failed", "error:preprocessing",
     "error:prediction_failed", "warning:feature_impact_failed", "error:shap_plot_failed"}

Shown(item) == item \in Range(ui)

\* The FeatureSet invariant: the two sub-sequences are disjoint and together
\* hold exactly the identifiers of selected_features.
WellFormedFeatureSet ==
    /\ Range(features_info.selected_categorical) \cap Range(features_info.selected_continuous) = {}
    /\ Range(features_info.selected_categorical) \cup Range(features_info.selected_continuous)
         = Range(features_info.selected_features)

\* C1: for a well-formed feature set, whenever the raw record holds every
\* selected_features identifier, preprocess_input returns (does not raise) a
\* one-row frame whose columns are exactly selected_features, in that order.
C1_EncodeSucceedsInOrder ==
    (PreprocessFinished /\ AbsentIds = {} /\ WellFormedFeatureSet) =>
        /\ pre.raised = "none"
        /\ Columns(pre.X) = features_info.selected_features

\* C2: whenever some selected_features identifier is absent from the raw
\* record, preprocess_input raises the validation error, its message lists
\* every absent identifier once and no present one, and neither the encoder
\* nor the scaler has been applied.
C2_MissingListedBeforeTransform ==
    (PreprocessFinished /\ AbsentIds # {}) =>
        /\ pc = "raised"
        /\ pre.raised = "ValueError"
        /\ Head(pre.message) = "Missing required features: "
        /\ Range(ListedIds(pre.message)) = AbsentIds
        /\ Len(ListedIds(pre.message)) = Cardinality(AbsentIds)
        /\ calls.encoder = 0
        /\ calls.scaler = 0
        /\ pre.cat_encoded = EmptyFrame
        /\ pre.cont_scaled = EmptyFrame

\* C2 witness: a record lacking two of three selected features was rejected.
C2_Witness ==
    /\ pc = "raised"
    /\ pre.raised = "ValueError"
    /\ Cardinality(AbsentIds) = 2
    /\ Len(features_info.selected_features) = 3

\* C3: the displayed band is Low exactly when probability*100 < 25, Medium
\* exactly when 25 <= probability*100 < 35 and High exactly when
\* probability*100 >= 35, so every probability has exactly one band.
C3_RiskBandThresholds ==
    pred.called =>
        LET p == pred.probability
        IN  /\ pred.risk_class \in {"Low Risk", "Medium Risk", "High Risk"}
            /\ (pred.risk_class = "Low Risk")    <=> (100 * p < 25 * ProbScale)
            /\ (pred.risk_class = "Medium Risk") <=> (25 * ProbScale <= 100 * p /\ 100 * p < 35 * ProbScale)
            /\ (pred.risk_class = "High Risk")   <=> (100 * p >= 35 * ProbScale)

\* C3 witness: a probability of exactly 25% was classified.
C3_Witness ==
    /\ pred.called
    /\ 100 * pred.probability = 25 * ProbScale
    /\ pred.risk_class = "Medium Risk"

\* C4: in a drawn waterfall the first start offset is the baseline, every
\* later start offset is the previous start offset plus the previous delta,
\* and the final offset is the baseline plus the sum of all contributions.
C4_CumulativeOffsets ==
    plot.status = "drawn" =>
        LET n == Len(plot.positions)
        IN  /\ n = Len(attr.shap_values)
            /\ Len(plot.values) = n
            /\ plot.positions[1] = attr.base_value
            /\ \A i \in 1..(n - 1) : plot.positions[i + 1] = plot.positions[i] + plot.values[i]
            /\ plot.cumsum = attr.base_value + SumSeq(attr.shap_values)

\* C4 witness: a three-segment waterfall with a non-zero baseline and
\* contributions of both signs was drawn.
C4_Witness ==
    /\ plot.status = "drawn"
    /\ Len(plot.positions) = 3
    /\ attr.base_value # 0
    /\ \E i, j \in 1..3 : plot.values[i] > 0 /\ plot.values[j] < 0

\* C5: two features of equal absolute contribution appear in the waterfall
\* in selected_features order (lower index first).
C5_StableTies ==
    plot.status = "drawn" =>
        \A i, j \in 1..Len(plot.sorted_idx) :
            (i < j /\ Abs(plot.values[i]) = Abs(plot.values[j]))
                => plot.sorted_idx[i] < plot.sorted_idx[j]

\* C6: a failing attribution step never prevents the prediction: with every
\* artifact present, an explainer that cannot be built for the loaded model
\* does not stop the process, and a request whose attribution failed shows
\* the probability and the band, no decomposition, and a diagnostic.
C6_AttributionFailureNonFatal ==
    /\ (loaded.explainer_failed /\ loaded.absent = {}) => pc # "stopped"
    /\ (pc = "done" /\ (attr.status = "failed" \/ plot.status = "failed")) =>
           /\ Shown("metric") /\ Shown("risk_box")
           /\ ~Shown("pyplot")
           /\ Shown("warning:feature_impact_failed") \/ Shown("error:shap_plot_failed")

\* C7: when any artifact (feature set, encoder, scaler, classifier, model
\* name) is absent from the store, the process never processes a request:
\* preprocess_input is never called and no probability is ever produced.
C7_MissingArtifactRefuses ==
    loaded.absent # {} =>
        /\ calls.preprocess_input = 0
        /\ ~pred.called

\* C8: once preprocessing has raised the missing-feature error, the request
\* is over: the classifier and the explainer are never invoked, no
\* probability, band or plot is shown, and preprocessing ran exactly once.
C8_ValidationAborts ==
    pre.raised = "ValueError" =>
        /\ pc \in {"raised", "done"}
        /\ ~pred.called
        /\ calls.predict_proba = 0
        /\ calls.shap_values = 0
        /\ calls.generate_shap_plot = 0
        /\ calls.preprocess_input = 1
        /\ ~Shown("metric") /\ ~Shown("risk_box") /\ ~Shown("pyplot")
        /\ attr.status = "none"

\* C8 witness: a request rejected for a missing feature has been reported
\* by main's handler.
C8_Witness ==
    /\ pc = "done"
    /\ pre.raised = "ValueError"
    /\ Shown("error:prediction_failed")

\* C9: whenever the explainer answers for several classes, the contributions
\* and the baseline handed to generate_shap_plot are both those of class 1,
\* the class of predict_proba(X)[0, 1] (in a process with every artifact).
C9_SameClassIndex ==
    (attr.status = "ok" /\ loaded.absent = {} /\ (attr.contrib_class # "single" \/ attr.base_class # "single")) =>
        /\ attr.contrib_class = "1"
        /\ attr.base_class = "1"

\* C10: a drawn waterfall whose final offset differs from the displayed
\* probability is never shown without a diagnostic reporting the divergence
\* (in a process with every artifact).
C10_DivergenceReported ==
    (plot.status = "drawn" /\ loaded.absent = {} /\ Shown("pyplot") /\ plot.cumsum # pred.probability) =>
        \E d \in Diagnostics : Shown(d)

\* C11: every segment label of a drawn waterfall is the display name of its
\* feature (the identifier itself when it has no display name) followed by
\* the feature's raw input value, the one the form submitted, to two
\* decimals (in a process with every artifact).
C11_LabelsShowRawValues ==
    (plot.status = "drawn" /\ loaded.absent = {}) =>
        \A i \in 1..Len(plot.labels) :
            LET f == features_info.selected_features[plot.sorted_idx[i]]
            IN  /\ f \in DOMAIN input_data
                /\ plot.labels[i] = <<FeatName(f), " = ", Format2f(1000 * input_data[f])>>

\* C12: a drawn waterfall holds every feature index of selected_features
\* exactly once, each segment's delta is that feature's contribution, and
\* consecutive segments have non-increasing absolute contribution.
C12_EveryFeatureOnceDescending ==
    plot.status = "drawn" =>
        LET n == Len(features_info.selected_features)
        IN  /\ Len(plot.sorted_idx) = n
            /\ Len(plot.values) = n
            /\ Range(plot.sorted_idx) = 1..n
            /\ \A i \in 1..n : plot.values[i] = attr.shap_values[plot.sorted_idx[i]]
            /\ \A i \in 1..(n - 1) : Abs(plot.values[i]) >= Abs(plot.values[i + 1])

\* C12 witness: a three-segment waterfall whose contributions differ in
\* magnitude and whose largest is not the first feature's.
C12_Witness ==
    /\ plot.status = "drawn"
    /\ Len(plot.values) = 3
    /\ Abs(plot.values[1]) > Abs(plot.values[3])
    /\ plot.sorted_idx[1] # 1

\* The raw record without the keys that are not in selected_features.
StrippedRecord ==
    [k \in {f \in DOMAIN input_data : f \in Range(features_info.selected_features)} |-> input_data[k]]

ExtraKeys == {k \in DOMAIN input_data : k \notin Range(features_info.selected_features)}

\* C13: keys of the raw record outside selected_features change nothing: the
\* call raises or returns exactly what preprocess_input raises or returns
\* for the record with those keys removed.
C13_ExtraKeysIgnored ==
    PreprocessFinished =>
        LET out == PreprocessInput(StrippedRecord, features_info,
                                   loaded.ordinal_encoder, loaded.scaler_cont)
        IN  /\ pre.raised = out.raised
            /\ pre.X = out.X

\* C13 witness: a record with a key outside selected_features was encoded
\* into a two-column frame.
C13_Witness ==
    /\ pc = "preprocessed"
    /\ ExtraKeys # {}
    /\ Len(pre.X) = 2

\* The identifiers some stage of preprocess_input produces a column for.
ProducedIds ==
    (IF features_info.selected_categorical # <<>> /\ loaded.ordinal_encoder
     THEN Range(features_info.selected_categorical) ELSE {})
    \cup
    (IF features_info.selected_continuous # <<>> /\ loaded.scaler_cont
     THEN Range(features_info.selected_continuous) ELSE {})

\* C14: preprocess_input never returns a partial vector: a returned frame
\* has a column for every selected_features identifier, and when the record
\* is complete but some identifier is produced by neither stage the call
\* raises KeyError (at the reindex) and returns nothing.
C14_NoPartialVector ==
    /\ pc = "preprocessed" =>
           /\ Range(features_info.selected_features) \subseteq Range(Columns(pre.X))
           /\ Len(pre.X) >= Len(features_info.selected_features)
    /\ (PreprocessFinished /\ AbsentIds = {}
          /\ ~(Range(features_info.selected_features) \subseteq ProducedIds)) =>
           /\ pc = "raised"
           /\ pre.raised = "KeyError"
           /\ pre.X = EmptyFrame

\* C14 witness: a complete record, a categorical feature with no encoder
\* loaded and a scaled continuous feature: the call raised at the reindex.
C14_Witness ==
    /\ pc = "raised"
    /\ pre.raised = "KeyError"
    /\ AbsentIds = {}
    /\ features_info.selected_categorical # <<>>
    /\ ~loaded.ordinal_encoder
    /\ pre.cont_scaled # EmptyFrame

\* The identifiers listed in some category of the form.
CategoryIds == UNION {Range(categories[i]) : i \in 1..Len(categories)}

\* The identifiers the form can submit.
FormIds == CategoryIds \cap DOMAIN FEATURE_LABELS

\* C15: the submitted record holds only identifiers that are in
\* selected_features, in a form category and in FEATURE_LABELS; hence when
\* selected_features holds an identifier outside the form, no probability is
\* ever produced and every request that reaches preprocess_input ends in the
\* missing-feature error.
C15_FormRecordOnly ==
    /\ DOMAIN input_data \subseteq (Range(features_info.selected_features) \cap FormIds)
    /\ (\E f \in Range(features_info.selected_features) : f \notin FormIds) =>
           /\ ~pred.called
           /\ calls.predict_proba = 0
           /\ PreprocessFinished => (pre.raised = "ValueError" /\ pc \in {"raised", "done"})

\* C15 witness: with a form field and an off-form identifier selected, the
\* submitted request (holding the form field) ended in the validation error.
C15_Witness ==
    /\ pc = "done"
    /\ DOMAIN input_data # {}
    /\ \E f \in Range(features_info.selected_features) : f \notin FormIds
    /\ pre.raised = "ValueError"
    /\ pre.missing_features # <<>>
    /\ \A f \in Range(pre.missing_features) : f \notin FormIds

====
